---- MODULE Spec2Model ----
(***************************************************************************)
(* CoinTaxman: the taxation evaluator (src/src/taxman.py) replaying a      *)
(* ledger of operations against a per-group Balance Queue.                 *)
(*                                                                         *)
(* The Balance Queue (balance_queue.py), the operation and tax-event       *)
(* records (transaction.py), the price lookup (price_data.py), the helpers *)
(* of misc.py and the configuration (config.py) are not part of src/; they *)
(* are modelled from spec.md (sections 3, 4.1, 4.2 and 6).                 *)
(*                                                                         *)
(* Amounts of coin are integers (multiples of the smallest amount).  Fiat  *)
(* values are decimal.Decimal numbers: a value v is held as the integer    *)
(* v * 10^DecimalPrec and every arithmetic result is rounded to            *)
(* DecimalPrec significant digits, half-even, as Python's decimal context  *)
(* does (with 28 digits).  Time is a tick; TicksPerYear ticks form a year. *)
(***************************************************************************)
EXTENDS Integers, Sequences, FiniteSets, TLC

VARIABLES
    PRINCIPLE,           \* config.PRINCIPLE: "FIFO" or "LIFO"
    CALCULATE_UNREALIZED_GAINS, \* config.CALCULATE_UNREALIZED_GAINS
    MULTI_DEPOT,         \* config.MULTI_DEPOT
    now,                 \* datetime.datetime.now() when taxman.py is loaded
    book,                \* self.book.operations: the ledger, in file order
    pc,                  \* "read", "groups", "eval", "done", "error"
    error,               \* the exception that ended the run, "" if none
    todo,                \* the (coin, operations) groups not yet evaluated
    coin,                \* _evaluate_taxation_GERMANY: its coin argument
    operations,          \* ... its operations argument (time-sorted)
    i,                   \* ... the position of the for loop in operations
    balance,             \* ... its Balance Queue
    sold_coins,          \* evaluate_sell: the result of the last balance.remove
    tax_events,          \* self.tax_events
    virtual_tax_events,  \* self.virtual_tax_events
    runs                 \* history: the two lists as each completed call of
                         \* evaluate_taxation left them

vars == <<PRINCIPLE, CALCULATE_UNREALIZED_GAINS, MULTI_DEPOT, now, book, pc, error,
          todo, coin, operations, i, balance, sold_coins, tax_events,
          virtual_tax_events, runs>>

\* What is fixed before the ledger is read.
config == <<PRINCIPLE, CALCULATE_UNREALIZED_GAINS, MULTI_DEPOT, now>>

-----------------------------------------------------------------------------
(* Bounds of the model *)

MaxOps == 3
MaxTradeOps == 4
MaxAmount == 3
MaxTime == 3
TicksPerYear == 2
DecimalPrec == 3
MaxRuns == 2

(* Configuration *)

TAX_YEAR == 1
FIAT == "EUR"
Coins == <<"EUR", "BTC">>
Platforms == <<"binance", "kraken">>

NoEffectKinds == <<"CoinLend", "CoinLendEnd", "Staking", "StakingEnd">>
InterestKinds == <<"CoinLendInterest", "StakingInterest">>
Kinds == <<"Fee", "Buy", "Sell", "Airdrop", "Commission", "Deposit",
          "Withdrawal", "Unknown">> \o NoEffectKinds \o InterestKinds

\* isinstance(op, classes): the kind x is one of the kinds listed in s.
Has(s, x) == \E n \in 1 .. Len(s) : s[n] = x

Times == 0 .. MaxTime
Amounts == 1 .. MaxAmount
SmallAmounts == 1 .. MaxAmount - 1

Year(t) == t \div TicksPerYear

\* TAX_DEADLINE: the last tick of the tax year, or now if that is earlier.
TAX_DEADLINE ==
    LET year_end == (TAX_YEAR + 1) * TicksPerYear - 1
    IN  IF year_end <= now THEN year_end ELSE now

\* Mutant: the years before the tax year pass too.
in_tax_year_UpTo(op) == Year(op.utc_time) <= TAX_YEAR

in_tax_year(op) == Year(op.utc_time) = TAX_YEAR

\* config.IS_LONG_TERM: held for more than one year.
IS_LONG_TERM(buy, sell) == buy + TicksPerYear < sell

is_fiat(c) == c = FIAT

-----------------------------------------------------------------------------
(* decimal.Decimal with DecimalPrec significant digits, ROUND_HALF_EVEN *)

Scale == 10 ^ DecimalPrec

Abs(x) == IF x < 0 THEN -x ELSE x
Sign(x) == IF x < 0 THEN -1 ELSE 1

\* The power of ten by which m exceeds DecimalPrec digits.
RECURSIVE Pow10Over(_)
Pow10Over(m) == IF m < Scale THEN 1 ELSE 10 * Pow10Over(m \div 10)

\* n / d rounded to an integer, ties to even (n >= 0, d > 0).
HalfEven(n, d) ==
    LET q == n \div d
        r == n % d
    IN  IF 2 * r > d \/ (2 * r = d /\ q % 2 = 1) THEN q + 1 ELSE q

\* The rational n / d (in units of 10^-DecimalPrec) rounded to DecimalPrec
\* significant digits.  Exact for every value of at least 0.1.
RoundRatio(n, d) ==
    LET m == Abs(n)
        u == Pow10Over(m \div d)
    IN  Sign(n) * HalfEven(m, d * u) * u

Dec(n) == n * Scale
DAdd(x, y) == RoundRatio(x + y, 1)
DSub(x, y) == RoundRatio(x - y, 1)
\* x * y; a factor that is a whole number is multiplied in unscaled.
DMul(x, y) ==
    IF y % Scale = 0 THEN RoundRatio(x * (y \div Scale), 1)
    ELSE IF x % Scale = 0 THEN RoundRatio((x \div Scale) * y, 1)
    ELSE RoundRatio(x * y, Scale)
\* The quotient of two amounts, as (sc.sold / op.change).
DDiv(a, b) == RoundRatio(a * Scale, b)

-----------------------------------------------------------------------------
(* price_data.get_cost: the fiat value of an operation or of a sold slice *)

PriceTable == <<1, 3, 1, 2>>

Price(c, t) == IF c = FIAT THEN 1 ELSE PriceTable[(t % Len(PriceTable)) + 1]

get_cost(op) == DMul(Dec(Price(op.coin, op.utc_time)), Dec(op.change))
get_cost_sold(sc) == DMul(Dec(Price(sc.op.coin, sc.op.utc_time)), Dec(sc.sold))

-----------------------------------------------------------------------------
(* transaction.py: operations and tax events *)

Operation(k, t, p, c, a, l) ==
    [kind |-> k, utc_time |-> t, platform |-> p, coin |-> c, change |-> a,
     line |-> l]

TaxEvent(taxation_type, taxed_gain, op, sell_value, real_gain, remark) ==
    [taxation_type |-> taxation_type, taxed_gain |-> taxed_gain, op |-> op,
     sell_value |-> sell_value, real_gain |-> real_gain, remark |-> remark]

\* TaxEvent(taxation_type, taxed_gain, op): the other fields at their defaults.
TaxEvent3(taxation_type, taxed_gain, op) ==
    TaxEvent(taxation_type, taxed_gain, op, 0, 0, <<>>)

\* tr.sort_operations(ops, ["utc_time"]): a stable sort by utc_time.
RECURSIVE sort_operations(_)
sort_operations(ops) ==
    IF ops = <<>> THEN <<>>
    ELSE LET n == Len(ops)
             x == ops[n]
             s == sort_operations(SubSeq(ops, 1, n - 1))
         IN  SelectSeq(s, LAMBDA o : o.utc_time <= x.utc_time) \o <<x>> \o
             SelectSeq(s, LAMBDA o : o.utc_time > x.utc_time)

-----------------------------------------------------------------------------
(* misc.py *)

\* misc.group_by: the keys in the order of their first appearance.
RECURSIVE KeysInOrder(_, _)
KeysInOrder(ops, attr) ==
    IF ops = <<>> THEN <<>>
    ELSE LET k == ops[1][attr]
         IN  <<k>> \o KeysInOrder(SelectSeq(ops, LAMBDA o : o[attr] # k), attr)

group_by(ops, attr) ==
    LET ks == KeysInOrder(ops, attr)
    IN  [j \in 1 .. Len(ks) |->
            [key |-> ks[j], ops |-> SelectSeq(ops, LAMBDA o : o[attr] = ks[j])]]

RECURSIVE dsum(_)
dsum(s) == IF s = <<>> THEN 0 ELSE s[1] + dsum(Tail(s))

-----------------------------------------------------------------------------
(* balance_queue.py: the Balance Queue (spec.md 3 and 4.1) *)

\* A lot: a slice of a prior acquisition.
Lot(op) == [op |-> op, total_amount |-> op.change, remaining_amount |-> op.change]

\* bop.not_sold
not_sold(bop) == bop.remaining_amount

\* A consumption record: the lot's origin operation and the amount taken.
SoldCoin(op, sold) == [op |-> op, sold |-> sold]

\* Mutant: the two queue classes mixed up.
BalanceType_Swapped ==
    IF PRINCIPLE = "FIFO" THEN "BalanceLIFOQueue" ELSE "BalanceFIFOQueue"

\* Taxman.__init__: the queue class chosen by config.PRINCIPLE.
BalanceType ==
    IF PRINCIPLE = "FIFO" THEN "BalanceFIFOQueue" ELSE "BalanceLIFOQueue"

\* self.BalanceType(): an empty queue.
NewBalance(type) == [type |-> type, queue |-> <<>>, not_sold |-> 0]

\* add(op): append a lot of op.change.
add(b, op) ==
    [b EXCEPT !.queue = Append(@, Lot(op)), !.not_sold = @ + op.change]

Eligible(queue) == {j \in 1 .. Len(queue) : queue[j].remaining_amount > 0}

\* FIFO: the eligible lot acquired first (the earlier added of two of a time).
OldestLot(queue) ==
    CHOOSE j \in Eligible(queue) : \A k \in Eligible(queue) :
        \/ queue[j].op.utc_time < queue[k].op.utc_time
        \/ queue[j].op.utc_time = queue[k].op.utc_time /\ j <= k

\* LIFO: the eligible lot acquired last (the later added of two of a time).
NewestLot(queue) ==
    CHOOSE j \in Eligible(queue) : \A k \in Eligible(queue) :
        \/ queue[j].op.utc_time > queue[k].op.utc_time
        \/ queue[j].op.utc_time = queue[k].op.utc_time /\ j >= k

NextLot(type, queue) ==
    IF type = "BalanceFIFOQueue" THEN OldestLot(queue) ELSE NewestLot(queue)

Min(a, b) == IF a <= b THEN a ELSE b

\* Mutant: the whole lot is taken, whatever is still needed.
RECURSIVE Consume_WholeLot(_, _, _)
Consume_WholeLot(type, queue, needed) ==
    IF needed <= 0 \/ Eligible(queue) = {}
    THEN [queue |-> queue, sold_coins |-> <<>>,
          left_over |-> IF needed > 0 THEN needed ELSE 0]
    ELSE LET j == NextLot(type, queue)
             sold == queue[j].remaining_amount
             rest == Consume_WholeLot(type,
                             [queue EXCEPT ![j].remaining_amount = @ - sold],
                             needed - sold)
         IN  [rest EXCEPT !.sold_coins = <<SoldCoin(queue[j].op, sold)>> \o @]

\* The consumption loop of remove: lot by lot in the order of the policy,
\* min(remaining_amount, amount still needed) from each.
RECURSIVE Consume(_, _, _)
Consume(type, queue, needed) ==
    IF needed = 0 \/ Eligible(queue) = {}
    THEN [queue |-> queue, sold_coins |-> <<>>, left_over |-> needed]
    ELSE LET j == NextLot(type, queue)
             sold == Min(queue[j].remaining_amount, needed)
             rest == Consume(type,
                             [queue EXCEPT ![j].remaining_amount = @ - sold],
                             needed - sold)
         IN  [rest EXCEPT !.sold_coins = <<SoldCoin(queue[j].op, sold)>> \o @]

\* Mutant: the aggregate not_sold is not reduced.
remove_StaleNotSold(b, op) ==
    LET r == Consume(b.type, b.queue, Abs(op.change))
    IN  IF r.left_over > 0
        THEN [ok |-> FALSE, balance |-> b, sold_coins |-> <<>>]
        ELSE [ok |-> TRUE,
              balance |-> [b EXCEPT !.queue = r.queue],
              sold_coins |-> r.sold_coins]

\* remove(op): InsufficientBalance (ok = FALSE) when the lots do not hold
\* abs(op.change), otherwise the consumption records and the queue after.
remove(b, op) ==
    LET r == Consume(b.type, b.queue, Abs(op.change))
    IN  IF r.left_over > 0
        THEN [ok |-> FALSE, balance |-> b, sold_coins |-> <<>>]
        ELSE [ok |-> TRUE,
              balance |-> [b EXCEPT !.queue = r.queue,
                                    !.not_sold = @ - Abs(op.change)],
              sold_coins |-> r.sold_coins]

\* sanity_check(): not_sold >= 0 and no lot below zero.
sanity_check(b) ==
    /\ b.not_sold >= 0
    /\ \A j \in 1 .. Len(b.queue) : b.queue[j].remaining_amount >= 0

-----------------------------------------------------------------------------
(* Taxman._evaluate_taxation_GERMANY *)

IncomeAtReceiptKinds ==
    <<"Airdrop", "CoinLendInterest", "StakingInterest", "Commission">>

\* Mutant: the origin of the lot is not looked at.
is_taxable_LongTermOnly(sc, op) == ~IS_LONG_TERM(sc.op.utc_time, op.utc_time)

\* evaluate_sell: is the gain on this sold slice taxed?
is_taxable(sc, op) ==
    /\ ~IS_LONG_TERM(sc.op.utc_time, op.utc_time)
    /\ ~(Has(IncomeAtReceiptKinds, sc.op.kind) /\ ~(sc.op.coin = FIAT))

\* evaluate_sell: the gain on one sold slice.
gain(sc, op, sell_value) ==
    LET partial_sell_value == DMul(DDiv(sc.sold, op.change), sell_value)
        sold_coin_cost == get_cost_sold(sc)
    IN  DSub(partial_sell_value, sold_coin_cost)

\* Mutant: real_gain takes the gain only where taxed_gain does not.
RECURSIVE SellGains_Elif(_, _, _, _)
SellGains_Elif(scs, op, sell_value, acc) ==
    IF scs = <<>> THEN acc
    ELSE LET sc == Head(scs)
             taxable == is_taxable(sc, op)
             g == gain(sc, op, sell_value)
             taxed == IF taxable THEN DAdd(acc[1], g) ELSE acc[1]
             real == IF ~taxable /\ CALCULATE_UNREALIZED_GAINS
                     THEN DAdd(acc[2], g) ELSE acc[2]
         IN  SellGains_Elif(Tail(scs), op, sell_value, <<taxed, real>>)

\* evaluate_sell: the loop over sold_coins; acc is <<taxed_gain, real_gain>>.
RECURSIVE SellGains(_, _, _, _)
SellGains(scs, op, sell_value, acc) ==
    IF scs = <<>> THEN acc
    ELSE LET sc == Head(scs)
             taxable == is_taxable(sc, op)
             g == gain(sc, op, sell_value)
             taxed == IF taxable THEN DAdd(acc[1], g) ELSE acc[1]
             real == IF CALCULATE_UNREALIZED_GAINS
                     THEN DAdd(acc[2], g) ELSE acc[2]
         IN  SellGains(Tail(scs), op, sell_value, <<taxed, real>>)

\* evaluate_sell: the remark, one entry per sold slice.
Remark(scs) ==
    [j \in 1 .. Len(scs) |->
        [sold |-> scs[j].sold, utc_time |-> scs[j].op.utc_time,
         kind |-> scs[j].op.kind]]

\* Mutant: the year of the Sell is not looked at.
evaluate_sell_AnyYear(op, force) ==
    LET r == remove(balance, op)
        sell_value == get_cost(op)
        gains == SellGains(r.sold_coins, op, sell_value, <<0, 0>>)
        tx == TaxEvent("Sonstige Einkuenfte", gains[1], op, sell_value,
                       gains[2], Remark(r.sold_coins))
    IN  IF ~r.ok
        THEN [ok |-> FALSE, balance |-> balance, sold_coins |-> <<>>, tx |-> <<>>]
        ELSE [ok |-> TRUE, balance |-> r.balance, sold_coins |-> r.sold_coins,
              tx |-> IF coin = FIAT THEN <<>> ELSE <<tx>>]

\* Mutant: what is not taxed is left before the coins are removed.
evaluate_sell_FilterFirst(op, force) ==
    LET r == remove(balance, op)
        sell_value == get_cost(op)
        gains == SellGains(r.sold_coins, op, sell_value, <<0, 0>>)
        tx == TaxEvent("Sonstige Einkuenfte", gains[1], op, sell_value,
                       gains[2], Remark(r.sold_coins))
    IN  IF coin = FIAT \/ (~in_tax_year(op) /\ ~force)
        THEN [ok |-> TRUE, balance |-> balance, sold_coins |-> <<>>, tx |-> <<>>]
        ELSE IF ~r.ok
        THEN [ok |-> FALSE, balance |-> balance, sold_coins |-> <<>>, tx |-> <<>>]
        ELSE [ok |-> TRUE, balance |-> r.balance, sold_coins |-> r.sold_coins,
              tx |-> <<tx>>]

\* evaluate_sell(op, force): tx is <<>> for None, <<event>> otherwise.
evaluate_sell(op, force) ==
    LET r == remove(balance, op)
        sell_value == get_cost(op)
        gains == SellGains(r.sold_coins, op, sell_value, <<0, 0>>)
        tx == TaxEvent("Sonstige Einkuenfte", gains[1], op, sell_value,
                       gains[2], Remark(r.sold_coins))
    IN  IF ~r.ok
        THEN [ok |-> FALSE, balance |-> balance, sold_coins |-> <<>>, tx |-> <<>>]
        ELSE [ok |-> TRUE, balance |-> r.balance, sold_coins |-> r.sold_coins,
              tx |-> IF coin = FIAT THEN <<>>
                     ELSE IF ~in_tax_year(op) /\ ~force THEN <<>>
                     ELSE <<tx>>]

-----------------------------------------------------------------------------
(* The run: main.py reads the ledger, then Taxman.evaluate_taxation *)

\* The program is started at one of the times nows.
InitAt(principles, unrealized, depots, nows) ==
    /\ PRINCIPLE \in principles
    /\ CALCULATE_UNREALIZED_GAINS \in unrealized
    /\ MULTI_DEPOT \in depots
    /\ now \in nows
    /\ book = <<>>
    /\ pc = "read"
    /\ error = ""
    /\ todo = <<>>
    /\ coin = FIAT
    /\ operations = <<>>
    /\ i = 1
    /\ balance = NewBalance(BalanceType)
    /\ sold_coins = <<>>
    /\ tax_events = <<>>
    /\ virtual_tax_events = <<>>
    /\ runs = <<>>

\* The program is started after the last time of the ledgers.
Init(principles, unrealized, depots) ==
    InitAt(principles, unrealized, depots, MaxTime + 1 .. MaxTime + 1)

\* book.read_files: one more operation of a ledger of at most max operations,
\* of the given kinds, amounts, coins and platforms; the files list their
\* operations in time order.
ReadOp(max, kinds, amounts, coins, platforms) ==
    /\ pc = "read"
    /\ Len(book) < max
    /\ \E k \in 1 .. Len(kinds), t \in Times, p \in 1 .. Len(platforms),
          c \in 1 .. Len(coins), a \in amounts :
        /\ book # <<>> => t >= book[Len(book)].utc_time
        /\ book' = Append(book, Operation(kinds[k], t, platforms[p], coins[c],
                                          a, Len(book) + 1))
    /\ UNCHANGED <<config, pc, error, todo, coin, operations, i, balance,
                   sold_coins, tax_events, virtual_tax_events, runs>>

\* The first tick after the tax year.
AfterTaxYear == (TAX_YEAR + 1) * TicksPerYear

\* book.read_files() of files that reach beyond the tax year.
ReadLateOp(max, kinds, amounts, coins, platforms) ==
    /\ pc = "read"
    /\ Len(book) < max
    /\ \E k \in 1 .. Len(kinds), t \in 0 .. AfterTaxYear,
          p \in 1 .. Len(platforms), c \in 1 .. Len(coins), a \in amounts :
        /\ book # <<>> => t >= book[Len(book)].utc_time
        /\ book' = Append(book, Operation(kinds[k], t, platforms[p], coins[c],
                                          a, Len(book) + 1))
    /\ UNCHANGED <<config, pc, error, todo, coin, operations, i, balance,
                   sold_coins, tax_events, virtual_tax_events, runs>>

\* _evaluate_taxation_per_coin: the coin groups of a list, each time-sorted.
PerCoin(ops) ==
    LET g == group_by(ops, "coin")
    IN  [j \in 1 .. Len(g) |->
            [coin |-> g[j].key, operations |-> sort_operations(g[j].ops)]]

RECURSIVE Flatten(_)
Flatten(ss) == IF ss = <<>> THEN <<>> ELSE ss[1] \o Flatten(Tail(ss))

\* Mutant: the operations are never separated by platform.
Groups_SingleDepot == PerCoin(book)

\* evaluate_taxation: the groups in the order in which they are evaluated.
Groups ==
    IF MULTI_DEPOT
    THEN LET g == group_by(book, "platform")
         IN  Flatten([j \in 1 .. Len(g) |-> PerCoin(g[j].ops)])
    ELSE PerCoin(book)

\* evaluate_taxation returns, the lists being as given.
Returned(te, vte) ==
    Append(runs, [tax_events |-> te, virtual_tax_events |-> vte])

\* Mutant: the assertion is all() mistaken for any().
Start_AnyInYear ==
    IF book # <<>> /\ \A j \in 1 .. Len(book) : Year(book[j].utc_time) > TAX_YEAR
    THEN /\ pc' = "error"
         /\ error' = "AssertionError"
         /\ UNCHANGED <<todo, runs>>
    ELSE /\ todo' = Groups
         /\ pc' = IF Groups = <<>> THEN "done" ELSE "groups"
         /\ runs' = IF Groups = <<>>
                    THEN Returned(tax_events, virtual_tax_events) ELSE runs
         /\ error' = error

\* evaluate_taxation up to the first group: the assertion on the years.
Start ==
    IF \E j \in 1 .. Len(book) : Year(book[j].utc_time) > TAX_YEAR
    THEN /\ pc' = "error"
         /\ error' = "AssertionError"
         /\ UNCHANGED <<todo, runs>>
    ELSE /\ todo' = Groups
         /\ pc' = IF Groups = <<>> THEN "done" ELSE "groups"
         /\ runs' = IF Groups = <<>>
                    THEN Returned(tax_events, virtual_tax_events) ELSE runs
         /\ error' = error

EvaluateTaxation ==
    /\ pc = "read"
    /\ Start
    /\ UNCHANGED <<config, book, coin, operations, i, balance, sold_coins,
                   tax_events, virtual_tax_events>>

\* A second call of evaluate_taxation on the same Taxman and ledger.
EvaluateTaxationAgain ==
    /\ pc = "done"
    /\ Len(runs) < MaxRuns
    /\ Start
    /\ UNCHANGED <<config, book, coin, operations, i, balance, sold_coins,
                   tax_events, virtual_tax_events>>

\* _evaluate_taxation_GERMANY(coin, operations): balance = self.BalanceType()
BeginGroup ==
    /\ pc = "groups"
    /\ todo # <<>>
    /\ coin' = Head(todo).coin
    /\ operations' = Head(todo).operations
    /\ todo' = Tail(todo)
    /\ i' = 1
    /\ balance' = NewBalance(BalanceType)
    /\ sold_coins' = <<>>
    /\ pc' = "eval"
    /\ UNCHANGED <<config, book, error, tax_events, virtual_tax_events, runs>>

AtOp(kinds) ==
    /\ pc = "eval"
    /\ i <= Len(operations)
    /\ Has(kinds, operations[i].kind)

Raise(e) ==
    /\ pc' = "error"
    /\ error' = e

Continue ==
    /\ i' = i + 1
    /\ UNCHANGED <<pc, error>>

\* Mutant: the Fee is passed over like a CoinLend.
DoFee_Pass ==
    /\ AtOp(<<"Fee">>)
    /\ Continue
    /\ UNCHANGED <<config, book, todo, coin, operations, balance, sold_coins,
                   tax_events, virtual_tax_events, runs>>

\* isinstance(op, tr.Fee): raise RuntimeError
DoFee ==
    /\ AtOp(<<"Fee">>)
    /\ Raise("RuntimeError")
    /\ UNCHANGED <<config, book, todo, coin, operations, i, balance,
                   sold_coins, tax_events, virtual_tax_events, runs>>

\* CoinLend, CoinLendEnd, Staking, StakingEnd: pass
DoNoEffect ==
    /\ AtOp(NoEffectKinds)
    /\ Continue
    /\ UNCHANGED <<config, book, todo, coin, operations, balance, sold_coins,
                   tax_events, virtual_tax_events, runs>>

\* Mutant: the Buy is passed over like a CoinLend.
DoBuy_Pass ==
    /\ AtOp(<<"Buy">>)
    /\ Continue
    /\ UNCHANGED <<config, book, todo, coin, operations, balance, sold_coins,
                   tax_events, virtual_tax_events, runs>>

\* isinstance(op, tr.Buy): balance.add(op)
DoBuy ==
    /\ AtOp(<<"Buy">>)
    /\ balance' = add(balance, operations[i])
    /\ Continue
    /\ UNCHANGED <<config, book, todo, coin, operations, sold_coins,
                   tax_events, virtual_tax_events, runs>>

\* Mutant: a Sell the queue cannot serve is passed over.
DoSell_Swallow ==
    /\ AtOp(<<"Sell">>)
    /\ LET r == evaluate_sell(operations[i], FALSE)
       IN  /\ balance' = r.balance
           /\ sold_coins' = r.sold_coins
           /\ tax_events' = tax_events \o r.tx
           /\ Continue
    /\ UNCHANGED <<config, book, todo, coin, operations, virtual_tax_events,
                   runs>>

\* Mutant: the event of a Sell of the ledger goes to the virtual list.
DoSell_ToVirtual ==
    /\ AtOp(<<"Sell">>)
    /\ LET r == evaluate_sell(operations[i], FALSE)
       IN  IF r.ok
           THEN /\ balance' = r.balance
                /\ sold_coins' = r.sold_coins
                /\ virtual_tax_events' = virtual_tax_events \o r.tx
                /\ Continue
           ELSE /\ Raise("InsufficientBalance")
                /\ UNCHANGED <<i, balance, sold_coins, virtual_tax_events>>
    /\ UNCHANGED <<config, book, todo, coin, operations, tax_events, runs>>

\* isinstance(op, tr.Sell): if tx_ := evaluate_sell(op): append
DoSell ==
    /\ AtOp(<<"Sell">>)
    /\ LET r == evaluate_sell(operations[i], FALSE)
       IN  IF r.ok
           THEN /\ balance' = r.balance
                /\ sold_coins' = r.sold_coins
                /\ tax_events' = tax_events \o r.tx
                /\ Continue
           ELSE /\ Raise("InsufficientBalance")
                /\ UNCHANGED <<i, balance, sold_coins, tax_events>>
    /\ UNCHANGED <<config, book, todo, coin, operations, virtual_tax_events,
                   runs>>

\* isinstance(op, (tr.CoinLendInterest, tr.StakingInterest))
DoInterest ==
    /\ AtOp(InterestKinds)
    /\ LET op == operations[i]
       IN  /\ balance' = add(balance, op)
           /\ IF ~in_tax_year(op)
              THEN Continue /\ UNCHANGED tax_events
              ELSE IF is_fiat(coin) /\ op.kind = "StakingInterest"
              THEN Raise("AssertionError") /\ UNCHANGED <<i, tax_events>>
              ELSE /\ tax_events' = Append(tax_events,
                        TaxEvent3(IF is_fiat(coin)
                                  THEN "Einkuenfte aus Kapitalvermoegen"
                                  ELSE "Einkuenfte aus sonstigen Leistungen",
                                  get_cost(op), op))
                   /\ Continue
    /\ UNCHANGED <<config, book, todo, coin, operations, sold_coins,
                   virtual_tax_events, runs>>

\* isinstance(op, tr.Airdrop): balance.add(op)
DoAirdrop ==
    /\ AtOp(<<"Airdrop">>)
    /\ balance' = add(balance, operations[i])
    /\ Continue
    /\ UNCHANGED <<config, book, todo, coin, operations, sold_coins,
                   tax_events, virtual_tax_events, runs>>

\* Mutant: the commission is taxed whatever its year.
DoCommission_AnyYear ==
    /\ AtOp(<<"Commission">>)
    /\ LET op == operations[i]
       IN  /\ balance' = add(balance, op)
           /\ tax_events' =
                Append(tax_events,
                       TaxEvent3("Einkuenfte aus sonstigen Leistungen",
                                 get_cost(op), op))
    /\ Continue
    /\ UNCHANGED <<config, book, todo, coin, operations, sold_coins,
                   virtual_tax_events, runs>>

\* isinstance(op, tr.Commission)
DoCommission ==
    /\ AtOp(<<"Commission">>)
    /\ LET op == operations[i]
       IN  /\ balance' = add(balance, op)
           /\ tax_events' =
                IF in_tax_year(op)
                THEN Append(tax_events,
                            TaxEvent3("Einkuenfte aus sonstigen Leistungen",
                                      get_cost(op), op))
                ELSE tax_events
    /\ Continue
    /\ UNCHANGED <<config, book, todo, coin, operations, sold_coins,
                   virtual_tax_events, runs>>

\* Mutant: a Deposit of any coin is added to the queue.
DoDeposit_AnyCoin ==
    /\ AtOp(<<"Deposit">>)
    /\ balance' = add(balance, operations[i])
    /\ Continue
    /\ UNCHANGED <<config, book, todo, coin, operations, sold_coins,
                   tax_events, virtual_tax_events, runs>>

\* isinstance(op, tr.Deposit)
DoDeposit ==
    /\ AtOp(<<"Deposit">>)
    /\ balance' = IF coin = FIAT THEN add(balance, operations[i]) ELSE balance
    /\ Continue
    /\ UNCHANGED <<config, book, todo, coin, operations, sold_coins,
                   tax_events, virtual_tax_events, runs>>

\* isinstance(op, tr.Withdrawal)
DoWithdrawal ==
    /\ AtOp(<<"Withdrawal">>)
    /\ LET r == remove(balance, operations[i])
       IN  IF coin # FIAT
           THEN Continue /\ UNCHANGED balance
           ELSE IF r.ok
           THEN Continue /\ balance' = r.balance
           ELSE Raise("InsufficientBalance") /\ UNCHANGED <<i, balance>>
    /\ UNCHANGED <<config, book, todo, coin, operations, sold_coins,
                   tax_events, virtual_tax_events, runs>>

\* else: raise NotImplementedError
DoUnknown ==
    /\ AtOp(<<"Unknown">>)
    /\ Raise("NotImplementedError")
    /\ UNCHANGED <<config, book, todo, coin, operations, i, balance,
                   sold_coins, tax_events, virtual_tax_events, runs>>

\* Mutant: only the first lot of the queue is counted.
left_coin_FirstLot ==
    IF balance.queue = <<>> THEN 0 ELSE not_sold(balance.queue[1])

\* The sum of bop.not_sold over balance.queue.
left_coin == dsum([j \in 1 .. Len(balance.queue) |-> not_sold(balance.queue[j])])

\* The Sell of everything left, at the deadline, on the last operation's platform.
virtual_sell ==
    Operation("Sell", TAX_DEADLINE, operations[Len(operations)].platform,
              coin, left_coin, -1)

\* After the loop: balance.sanity_check(), then the unrealized gains.
FinishGroup ==
    /\ pc = "eval"
    /\ i > Len(operations)
    /\ IF ~sanity_check(balance)
       THEN /\ Raise("RuntimeError")
            /\ UNCHANGED <<balance, sold_coins, virtual_tax_events, runs>>
       ELSE IF CALCULATE_UNREALIZED_GAINS /\ left_coin # 0
       THEN LET r == evaluate_sell(virtual_sell, TRUE)
            IN  IF r.ok
                THEN /\ balance' = r.balance
                     /\ sold_coins' = r.sold_coins
                     /\ virtual_tax_events' = virtual_tax_events \o r.tx
                     /\ pc' = IF todo = <<>> THEN "done" ELSE "groups"
                     /\ runs' = IF todo = <<>>
                                THEN Returned(tax_events,
                                              virtual_tax_events \o r.tx)
                                ELSE runs
                     /\ error' = error
                ELSE /\ Raise("InsufficientBalance")
                     /\ UNCHANGED <<balance, sold_coins, virtual_tax_events, runs>>
       ELSE /\ pc' = IF todo = <<>> THEN "done" ELSE "groups"
            /\ runs' = IF todo = <<>>
                       THEN Returned(tax_events, virtual_tax_events) ELSE runs
            /\ UNCHANGED <<error, balance, sold_coins, virtual_tax_events>>
    /\ UNCHANGED <<config, book, todo, coin, operations, i, tax_events>>

\* All kinds of operation, both coins, both platforms, every configuration.
Next ==
    \/ ReadOp(MaxOps, Kinds, Amounts, Coins, Platforms)
    \/ EvaluateTaxation
    \/ BeginGroup
    \/ DoFee
    \/ DoNoEffect
    \/ DoBuy
    \/ DoSell
    \/ DoInterest
    \/ DoAirdrop
    \/ DoCommission
    \/ DoDeposit
    \/ DoWithdrawal
    \/ DoUnknown
    \/ FinishGroup

Spec == Init({"FIFO", "LIFO"}, BOOLEAN, BOOLEAN) /\ [][Next]_vars

\* Ledgers of purchases and sales of one coin on one platform.
NextTrade ==
    \/ ReadOp(MaxTradeOps, <<"Buy", "Sell">>, Amounts, <<"BTC">>, <<"binance">>)
    \/ EvaluateTaxation
    \/ BeginGroup
    \/ DoBuy
    \/ DoSell
    \/ FinishGroup

SpecTrade == Init({"FIFO", "LIFO"}, BOOLEAN, {FALSE}) /\ [][NextTrade]_vars

\* Ledgers of purchases, sales and fiat transfers of both coins.
NextFunds ==
    \/ ReadOp(MaxOps, <<"Buy", "Sell", "Deposit", "Withdrawal">>, SmallAmounts,
              Coins, <<"binance">>)
    \/ EvaluateTaxation
    \/ BeginGroup
    \/ DoBuy
    \/ DoSell
    \/ DoDeposit
    \/ DoWithdrawal
    \/ FinishGroup

SpecFunds == Init({"FIFO"}, BOOLEAN, {FALSE}) /\ [][NextFunds]_vars

\* Ledgers of every kind of acquisition, and sales, of one coin.
NextGain ==
    \/ ReadOp(MaxOps, <<"Buy", "Sell">> \o IncomeAtReceiptKinds, SmallAmounts,
              <<"BTC">>, <<"binance">>)
    \/ EvaluateTaxation
    \/ BeginGroup
    \/ DoBuy
    \/ DoSell
    \/ DoInterest
    \/ DoAirdrop
    \/ DoCommission
    \/ FinishGroup

SpecGain == Init({"FIFO", "LIFO"}, BOOLEAN, {FALSE}) /\ [][NextGain]_vars

\* Ledgers of purchases, commissions and sales, evaluated up to MaxRuns times.
NextRerun ==
    \/ ReadOp(MaxOps, <<"Buy", "Sell", "Commission">>, SmallAmounts, <<"BTC">>,
              <<"binance">>)
    \/ EvaluateTaxation
    \/ EvaluateTaxationAgain
    \/ BeginGroup
    \/ DoBuy
    \/ DoSell
    \/ DoCommission
    \/ FinishGroup

SpecRerun == Init({"FIFO"}, BOOLEAN, {FALSE}) /\ [][NextRerun]_vars

\* Ledgers of purchases and sales of both coins on both platforms, in one
\* depot or in one depot per platform.
NextDepot ==
    \/ ReadOp(MaxOps, <<"Buy", "Sell">>, SmallAmounts, Coins, Platforms)
    \/ EvaluateTaxation
    \/ BeginGroup
    \/ DoBuy
    \/ DoSell
    \/ FinishGroup

SpecDepot == Init({"FIFO"}, {FALSE}, BOOLEAN) /\ [][NextDepot]_vars

\* Ledgers of purchases, sales, interest and commissions of one coin, the
\* program being started at any time.
NextYear ==
    \/ ReadOp(MaxOps, <<"Buy", "Sell", "CoinLendInterest", "Commission">>,
              SmallAmounts, <<"BTC">>, <<"binance">>)
    \/ EvaluateTaxation
    \/ BeginGroup
    \/ DoBuy
    \/ DoSell
    \/ DoInterest
    \/ DoCommission
    \/ FinishGroup

SpecYear ==
    InitAt({"FIFO"}, BOOLEAN, {FALSE}, 0 .. MaxTime + 1) /\ [][NextYear]_vars

\* Ledgers of acquisitions of every kind, of both coins.
NextIncome ==
    \/ ReadOp(MaxOps, <<"Buy">> \o IncomeAtReceiptKinds, SmallAmounts, Coins,
              <<"binance">>)
    \/ EvaluateTaxation
    \/ BeginGroup
    \/ DoBuy
    \/ DoInterest
    \/ DoAirdrop
    \/ DoCommission
    \/ FinishGroup

SpecIncome == Init({"FIFO"}, {FALSE}, {FALSE}) /\ [][NextIncome]_vars

\* Ledgers with standalone fees and operations of an unknown kind.
NextFatal ==
    \/ ReadOp(MaxTradeOps, <<"Buy", "Fee", "Unknown">>, 1 .. 1, Coins,
              <<"binance">>)
    \/ EvaluateTaxation
    \/ BeginGroup
    \/ DoFee
    \/ DoBuy
    \/ DoUnknown
    \/ FinishGroup

SpecFatal == Init({"FIFO"}, BOOLEAN, {FALSE}) /\ [][NextFatal]_vars

\* Ledgers that may hold operations after the tax year.
NextLate ==
    \/ ReadLateOp(MaxOps, <<"Buy", "Sell">>, SmallAmounts, Coins, <<"binance">>)
    \/ EvaluateTaxation
    \/ BeginGroup
    \/ DoBuy
    \/ DoSell
    \/ FinishGroup

SpecLate == Init({"FIFO"}, BOOLEAN, {FALSE}) /\ [][NextLate]_vars

-----------------------------------------------------------------------------
(* Properties of the Balance Queue under the replay of a group *)

AddKinds(c) ==
    <<"Buy", "Airdrop", "Commission">> \o InterestKinds
        \o (IF c = FIAT THEN <<"Deposit">> ELSE <<>>)

RemoveKinds(c) == <<"Sell">> \o (IF c = FIAT THEN <<"Withdrawal">> ELSE <<>>)

\* The sum of the changes of the operations of the given kinds.
SumChange(ops, kinds) ==
    dsum([j \in 1 .. Len(ops) |->
            IF Has(kinds, ops[j].kind) THEN ops[j].change ELSE 0])

\* The operations of the group the loop has gone through.
Replayed == IF pc = "eval" THEN SubSeq(operations, 1, i - 1) ELSE operations

\* The amount the virtual Sell of the group has removed.
VirtualRemoved ==
    IF (pc = "groups" \/ pc = "done") /\ virtual_tax_events # <<>>
       /\ virtual_tax_events[Len(virtual_tax_events)].op.coin = coin
    THEN virtual_tax_events[Len(virtual_tax_events)].op.change
    ELSE 0

SumRemaining(queue) ==
    dsum([j \in 1 .. Len(queue) |-> queue[j].remaining_amount])

SumSold(scs) == dsum([j \in 1 .. Len(scs) |-> scs[j].sold])

\* This step calls balance.remove for a Sell of the ledger.
IsSellStep ==
    /\ pc = "eval"
    /\ i <= Len(operations)
    /\ operations[i].kind = "Sell"

\* This step calls balance.remove for the virtual Sell.
IsVirtualSellStep ==
    /\ pc = "eval"
    /\ i > Len(operations)
    /\ sanity_check(balance)
    /\ CALCULATE_UNREALIZED_GAINS
    /\ left_coin # 0

RemovedOp == IF IsSellStep THEN operations[i] ELSE virtual_sell

RemoveFailed == pc' = "error" /\ error' = "InsufficientBalance"

\* C1: lot conservation.  While a group is replayed without an error, and
\* after it, not_sold is the sum of the amounts added minus the sum of the
\* amounts removed.
C1_LotConservation ==
    ((pc = "eval" \/ pc = "groups" \/ pc = "done") /\ operations # <<>>) =>
        balance.not_sold = SumChange(Replayed, AddKinds(coin))
                           - SumChange(Replayed, RemoveKinds(coin))
                           - VirtualRemoved

C1_Witness ==
    /\ pc = "eval"
    /\ SumChange(Replayed, RemoveKinds(coin)) > 0
    /\ Len(balance.queue) >= 2
    /\ balance.not_sold > 0

\* C2: consumption completeness.  Every remove either fails with
\* InsufficientBalance or returns records of positive amounts that sum to
\* abs(op.change), each taken from a lot of the queue that held at least
\* that much, and the lots lose exactly what the records name.
C2_Records(op) ==
    /\ SumSold(sold_coins') = Abs(op.change)
    /\ \A r \in 1 .. Len(sold_coins') :
          /\ sold_coins'[r].sold > 0
          /\ \E j \in 1 .. Len(balance.queue) :
                /\ balance.queue[j].op = sold_coins'[r].op
                /\ sold_coins'[r].sold <= balance.queue[j].remaining_amount
                /\ balance'.queue[j].remaining_amount =
                      balance.queue[j].remaining_amount - sold_coins'[r].sold
    /\ \A j \in 1 .. Len(balance.queue) :
          (\A r \in 1 .. Len(sold_coins') :
                sold_coins'[r].op # balance.queue[j].op)
             => balance'.queue[j] = balance.queue[j]

C2_ConsumptionComplete ==
    [][(IsSellStep \/ IsVirtualSellStep) =>
          (RemoveFailed \/ C2_Records(RemovedOp))]_vars

C2_Witness ==
    /\ pc = "eval"
    /\ Len(sold_coins) = 2
    /\ sold_coins[2].sold < sold_coins[2].op.change

Later(a, b) ==
    \/ a.utc_time > b.utc_time
    \/ a.utc_time = b.utc_time /\ a.line > b.line

\* The lot of the queue that holds the operation o.
LotOf(queue, o) == CHOOSE j \in 1 .. Len(queue) : queue[j].op = o

Touched(j) ==
    balance'.queue[j].remaining_amount < balance.queue[j].remaining_amount

\* C3: FIFO ordering.  Under FIFO a successful remove names the lots in
\* ascending acquisition time, every record but the last exhausts its lot,
\* and a lot is touched only if every older lot is exhausted; the ledger
\* Buy a1 at t1, Buy a2 at t2 > t1, Sell s (a1 < s <= a1 + a2) yields the
\* records (lot at t1, a1), (lot at t2, s - a1).
C3_Order ==
    /\ \A a, b \in 1 .. Len(sold_coins') :
          a < b => Later(sold_coins'[b].op, sold_coins'[a].op)
    /\ \A a \in 1 .. Len(sold_coins') - 1 :
          balance'.queue[LotOf(balance.queue, sold_coins'[a].op)]
              .remaining_amount = 0
    /\ \A j, k \in 1 .. Len(balance.queue) :
          (Touched(k) /\ Later(balance.queue[k].op, balance.queue[j].op))
             => balance'.queue[j].remaining_amount = 0

C3_Scenario ==
    (/\ i = 3
     /\ operations[1].kind = "Buy"
     /\ operations[2].kind = "Buy"
     /\ operations[1].utc_time < operations[2].utc_time
     /\ operations[1].change < operations[3].change
     /\ operations[3].change <= operations[1].change + operations[2].change)
    => sold_coins' =
          <<SoldCoin(operations[1], operations[1].change),
            SoldCoin(operations[2],
                     operations[3].change - operations[1].change)>>

C3_FifoOrdering ==
    [][(PRINCIPLE = "FIFO" /\ (IsSellStep \/ IsVirtualSellStep)
           /\ ~RemoveFailed)
          => (C3_Order /\ (IsSellStep => C3_Scenario))]_vars

\* Buy 2 at t1, Buy 2 at t2, Sell 3: the records (lot at t1, 2), (lot at t2, 1).
C3_Witness ==
    /\ PRINCIPLE = "FIFO"
    /\ pc = "eval"
    /\ i = 4
    /\ Len(sold_coins) = 2
    /\ sold_coins[1] = SoldCoin(operations[1], 2)
    /\ sold_coins[2] = SoldCoin(operations[2], 1)
    /\ operations[1].change = 2
    /\ operations[2].change = 2
    /\ operations[3].kind = "Sell"
    /\ operations[1].utc_time < operations[2].utc_time
    /\ operations[2].utc_time < operations[3].utc_time

\* C4: LIFO ordering.  Under LIFO a successful remove names the lots in
\* descending acquisition time, every record but the last exhausts its lot,
\* and a lot is touched only if every newer lot is exhausted; a remove of no
\* more than the newest lot holds consumes that lot alone.
C4_Order ==
    /\ \A a, b \in 1 .. Len(sold_coins') :
          a < b => Later(sold_coins'[a].op, sold_coins'[b].op)
    /\ \A a \in 1 .. Len(sold_coins') - 1 :
          balance'.queue[LotOf(balance.queue, sold_coins'[a].op)]
              .remaining_amount = 0
    /\ \A j, k \in 1 .. Len(balance.queue) :
          (Touched(k) /\ Later(balance.queue[j].op, balance.queue[k].op))
             => balance'.queue[j].remaining_amount = 0

C4_NewestOnly ==
    \A j \in 1 .. Len(balance.queue) :
        (/\ balance.queue[j].remaining_amount >= Abs(RemovedOp.change)
         /\ \A k \in 1 .. Len(balance.queue) :
               k # j => Later(balance.queue[j].op, balance.queue[k].op))
        => sold_coins' = <<SoldCoin(balance.queue[j].op, Abs(RemovedOp.change))>>

C4_LifoOrdering ==
    [][(PRINCIPLE = "LIFO" /\ (IsSellStep \/ IsVirtualSellStep)
           /\ ~RemoveFailed)
          => (C4_Order /\ C4_NewestOnly)]_vars

\* Lots at t1 < t2 < t3 and a Sell of no more than the third: it alone is consumed.
C4_Witness ==
    /\ PRINCIPLE = "LIFO"
    /\ pc = "eval"
    /\ i = 5
    /\ Len(balance.queue) = 3
    /\ balance.queue[1].op.utc_time < balance.queue[2].op.utc_time
    /\ balance.queue[2].op.utc_time < balance.queue[3].op.utc_time
    /\ operations[4].kind = "Sell"
    /\ sold_coins = <<SoldCoin(balance.queue[3].op, operations[4].change)>>
    /\ balance.queue[1].remaining_amount = balance.queue[1].total_amount
    /\ balance.queue[2].remaining_amount = balance.queue[2].total_amount

\* C5: the Balance Queue invariant.  Every lot's remaining_amount lies in
\* [0, total_amount] and never increases while its group is replayed,
\* not_sold is the sum of the remaining amounts, and the sanity check at the
\* end of a replay that raised no error does not fail.
C5_State ==
    /\ \A j \in 1 .. Len(balance.queue) :
          /\ balance.queue[j].remaining_amount >= 0
          /\ balance.queue[j].remaining_amount <= balance.queue[j].total_amount
    /\ balance.not_sold = SumRemaining(balance.queue)
    /\ (pc = "eval" /\ i > Len(operations)) => sanity_check(balance)

C5_Step ==
    pc = "eval" =>
        /\ Len(balance'.queue) >= Len(balance.queue)
        /\ \A j \in 1 .. Len(balance.queue) :
              /\ balance'.queue[j].op = balance.queue[j].op
              /\ balance'.queue[j].total_amount = balance.queue[j].total_amount
              /\ balance'.queue[j].remaining_amount
                    <= balance.queue[j].remaining_amount

C5_QueueInvariant == [](C5_State) /\ [][C5_Step]_vars

C5_Witness ==
    /\ pc = "groups" \/ pc = "done"
    /\ Len(balance.queue) >= 2
    /\ \E j \in 1 .. Len(balance.queue) :
          /\ balance.queue[j].remaining_amount > 0
          /\ balance.queue[j].remaining_amount < balance.queue[j].total_amount
    /\ \E j \in 1 .. Len(balance.queue) : balance.queue[j].remaining_amount = 0

-----------------------------------------------------------------------------
(* Properties of the evaluation *)

\* This step calls balance.remove for a Withdrawal of the home fiat.
IsFiatWithdrawalStep ==
    /\ pc = "eval"
    /\ i <= Len(operations)
    /\ operations[i].kind = "Withdrawal"
    /\ coin = FIAT

\* C6: insufficient balance is surfaced.  A Sell, or a Withdrawal of the home
\* fiat, of more than not_sold ends the run with InsufficientBalance and
\* appends no Tax Event; after an error nothing more is evaluated.
C6_Step ==
    /\ pc # "error"
    /\ ((IsSellStep \/ IsFiatWithdrawalStep)
           /\ Abs(operations[i].change) > balance.not_sold)
        => (/\ RemoveFailed
            /\ tax_events' = tax_events
            /\ virtual_tax_events' = virtual_tax_events)

C6_InsufficientSurfaced == [][C6_Step]_vars

\* A Sell that fails after an earlier Sell of the group has been taxed.
C6_Witness ==
    /\ pc = "error"
    /\ error = "InsufficientBalance"
    /\ operations[i].kind = "Sell"
    /\ balance.queue # <<>>
    /\ Len(tax_events) = 1

\* The Tax Events of the two lists that come from a Sell.
SellEvents ==
    {tax_events[j] : j \in {k \in 1 .. Len(tax_events) :
                                tax_events[k].op.kind = "Sell"}}
    \cup {virtual_tax_events[j] : j \in 1 .. Len(virtual_tax_events)}

\* The fiat value of the slice r of the disposal of the event e.
PartialSellValue(e, r) == DMul(DDiv(r.sold, e.op.change), e.sell_value)

\* The cost of the slice r: the price at its acquisition times its amount.
SliceCost(e, r) == Dec(Price(e.op.coin, r.utc_time) * r.sold)

\* The exact sum of f over the slices of the event e.
RECURSIVE SumOver(_, _, _)
SumOver(e, f(_, _), n) ==
    IF n = 0 THEN 0 ELSE SumOver(e, f, n - 1) + f(e, e.remark[n])

ShortTermBuy(e, r) ==
    r.kind = "Buy" /\ ~IS_LONG_TERM(r.utc_time, e.op.utc_time)

\* C7: the gain of a fully taxable disposal.  The Tax Event of a Sell in the
\* tax year whose slices all come from short-term Buy lots carries the full
\* fiat value of the disposal as sell_value, the partial sell values of its
\* slices sum to sell_value, and taxed_gain is sell_value minus the summed
\* cost of the slices.
C7_FullyTaxableGain ==
    \A j \in 1 .. Len(tax_events) :
        LET e == tax_events[j]
        IN  (/\ e.op.kind = "Sell"
             /\ in_tax_year(e.op)
             /\ e.op.coin # FIAT
             /\ \A n \in 1 .. Len(e.remark) : ShortTermBuy(e, e.remark[n]))
            => /\ e.sell_value = Dec(Price(e.op.coin, e.op.utc_time) * e.op.change)
               /\ SumOver(e, PartialSellValue, Len(e.remark)) = e.sell_value
               /\ e.taxed_gain =
                     e.sell_value - SumOver(e, SliceCost, Len(e.remark))

\* The slice r of the event e is taxed: held no longer than the threshold,
\* and not income of a non-home-fiat coin taxed at its receipt.
Taxed(e, r) ==
    /\ ~IS_LONG_TERM(r.utc_time, e.op.utc_time)
    /\ ~(/\ \/ r.kind = "Airdrop"
            \/ r.kind = "CoinLendInterest"
            \/ r.kind = "StakingInterest"
            \/ r.kind = "Commission"
         /\ e.op.coin # FIAT)

SliceGain(e, r) == DSub(PartialSellValue(e, r), SliceCost(e, r))

\* The decimal sum of the gains of the first n slices of e that satisfy want.
RECURSIVE GainOver(_, _, _)
GainOver(e, want(_, _), n) ==
    IF n = 0 THEN 0
    ELSE IF want(e, e.remark[n])
    THEN DAdd(GainOver(e, want, n - 1), SliceGain(e, e.remark[n]))
    ELSE GainOver(e, want, n - 1)

AnySlice(e, r) == TRUE
Exempt(e, r) == ~Taxed(e, r)

\* C8: the taxability rule.  In every Tax Event of a Sell, taxed_gain is the
\* sum of the gains of exactly the slices that are neither long-term nor
\* income taxed at receipt; it is 0 when every slice is long-term; and with
\* unrealized-gain tracking real_gain is the sum of the gains of all slices.
C8_TaxabilityRule ==
    \A e \in SellEvents :
        /\ e.taxed_gain = GainOver(e, Taxed, Len(e.remark))
        /\ (\A n \in 1 .. Len(e.remark) :
                IS_LONG_TERM(e.remark[n].utc_time, e.op.utc_time))
              => e.taxed_gain = 0
        /\ CALCULATE_UNREALIZED_GAINS
              => e.real_gain = GainOver(e, AnySlice, Len(e.remark))

\* A Sell of long-term lots only, at a gain.
C8_Witness ==
    /\ CALCULATE_UNREALIZED_GAINS
    /\ \E j \in 1 .. Len(tax_events) :
          /\ tax_events[j].op.kind = "Sell"
          /\ tax_events[j].remark # <<>>
          /\ \A n \in 1 .. Len(tax_events[j].remark) :
                IS_LONG_TERM(tax_events[j].remark[n].utc_time,
                             tax_events[j].op.utc_time)
          /\ tax_events[j].taxed_gain = 0
          /\ tax_events[j].real_gain > 0

AllEvents ==
    {tax_events[j] : j \in 1 .. Len(tax_events)}
    \cup {virtual_tax_events[j] : j \in 1 .. Len(virtual_tax_events)}

\* C9 as claimed: in every Tax Event taxed_gain is no larger than real_gain
\* in magnitude and of no opposite sign.
C9_TaxedWithinReal ==
    \A e \in AllEvents :
        /\ Abs(e.taxed_gain) <= Abs(e.real_gain)
        /\ ~(e.taxed_gain > 0 /\ e.real_gain < 0)
        /\ ~(e.taxed_gain < 0 /\ e.real_gain > 0)

\* C9 as amended.  With unrealized-gain tracking, in every Tax Event of a Sell
\* taxed_gain <= real_gain if no exempt slice was sold at a loss, and
\* taxed_gain = real_gain if no slice is exempt; without tracking real_gain
\* is 0 whatever taxed_gain is.
C9_TaxedAndReal ==
    \A e \in SellEvents :
        IF CALCULATE_UNREALIZED_GAINS
        THEN /\ (\A n \in 1 .. Len(e.remark) :
                    Exempt(e, e.remark[n]) => SliceGain(e, e.remark[n]) >= 0)
                   => e.taxed_gain <= e.real_gain
             /\ (\A n \in 1 .. Len(e.remark) : Taxed(e, e.remark[n]))
                   => e.taxed_gain = e.real_gain
        ELSE e.real_gain = 0

\* A Sell of a taxed and an exempt slice, both at a gain.
C9_Witness ==
    /\ CALCULATE_UNREALIZED_GAINS
    /\ \E e \in SellEvents :
          /\ \E n \in 1 .. Len(e.remark) : Taxed(e, e.remark[n])
          /\ \E n \in 1 .. Len(e.remark) : Exempt(e, e.remark[n])
          /\ 0 < e.taxed_gain
          /\ e.taxed_gain < e.real_gain

\* C10: determinism of a second run.  After a second call of
\* evaluate_taxation on the same ledger the two lists are what they were
\* after the first.
C10_SecondRunIdentical == Len(runs) >= 2 => runs[2] = runs[1]

-----------------------------------------------------------------------------
(* Properties of the unrealized-gain projection and of the grouping *)

\* This step is the end of a group: the sanity check and the virtual Sell.
IsFinishStep == pc = "eval" /\ i > Len(operations)

\* No lot of the queue has anything left.
QueueEmpty(b) ==
    /\ b.not_sold = 0
    /\ \A j \in 1 .. Len(b.queue) : b.queue[j].remaining_amount = 0

\* The step appends one virtual Tax Event: the Sell of all that is left.
VirtualSellAppended ==
    /\ Len(virtual_tax_events') = Len(virtual_tax_events) + 1
    /\ SubSeq(virtual_tax_events', 1, Len(virtual_tax_events))
          = virtual_tax_events
    /\ LET e == virtual_tax_events'[Len(virtual_tax_events')]
       IN  /\ e.op.kind = "Sell"
           /\ e.op.coin = coin
           /\ e.op.change = balance.not_sold
    /\ QueueEmpty(balance')

\* No two virtual Tax Events belong to one group.
OnePerGroup ==
    \A j, k \in 1 .. Len(virtual_tax_events) :
        j # k => \/ virtual_tax_events[j].op.coin # virtual_tax_events[k].op.coin
                 \/ /\ MULTI_DEPOT
                    /\ virtual_tax_events[j].op.platform
                          # virtual_tax_events[k].op.platform

\* C11 as claimed: at the end of a group one virtual Tax Event for all that is
\* left is appended if tracking is on and not_sold > 0, and none otherwise.
C11_Step ==
    IsFinishStep =>
        IF CALCULATE_UNREALIZED_GAINS /\ balance.not_sold > 0
        THEN VirtualSellAppended
        ELSE virtual_tax_events' = virtual_tax_events

C11_VirtualPerGroup == [][C11_Step]_vars

\* C11 as amended: at the end of a group of a coin other than the home fiat
\* one virtual Tax Event for all that is left is appended if tracking is on and
\* not_sold > 0; at the end of the home fiat group what is left is removed
\* and nothing is appended; no other group end appends; and the virtual list
\* never holds two events of one group.
C11_AmendedStep ==
    IsFinishStep =>
        IF CALCULATE_UNREALIZED_GAINS /\ balance.not_sold > 0
        THEN IF coin # FIAT
             THEN VirtualSellAppended
             ELSE /\ virtual_tax_events' = virtual_tax_events
                  /\ QueueEmpty(balance')
        ELSE virtual_tax_events' = virtual_tax_events /\ balance' = balance

C11_VirtualPerCoinGroup == [](OnePerGroup) /\ [][C11_AmendedStep]_vars

\* Both groups ended with something left; only the coin's has an event.
C11_Witness ==
    /\ pc = "done"
    /\ CALCULATE_UNREALIZED_GAINS
    /\ Len(virtual_tax_events) = 1
    /\ virtual_tax_events[1].op.change > 1
    /\ \E j \in 1 .. Len(book) : book[j].coin = FIAT /\ book[j].kind = "Deposit"
    /\ \A j \in 1 .. Len(book) :
          book[j].coin = FIAT => book[j].kind = "Deposit"

\* This step replays an operation of the ledger.
IsLedgerStep == pc = "eval" /\ i <= Len(operations)

\* C12: realized and virtual events are never mixed.  The end of a group, with
\* its virtual Sell, leaves the realized list as it is, and the replay of an
\* operation of the ledger leaves the virtual list as it is.
C12_Step ==
    /\ IsFinishStep => tax_events' = tax_events
    /\ IsLedgerStep => virtual_tax_events' = virtual_tax_events
    /\ \A j \in 1 .. Len(virtual_tax_events') :
          virtual_tax_events'[j].op.line = -1
    /\ \A j \in 1 .. Len(tax_events') : tax_events'[j].op.line > 0

C12_NeverMixed == [][C12_Step]_vars

\* A run that has left events in both lists.
C12_Witness ==
    /\ pc = "done"
    /\ Len(tax_events) >= 2
    /\ virtual_tax_events # <<>>

\* The operation o belongs to the group of the coin c with the operations ops.
InGroup(o, c, ops) ==
    /\ o.coin = c
    /\ MULTI_DEPOT => o.platform = ops[1].platform

\* C13: group isolation.  Every group starts with an empty queue, the group
\* is all the operations of the ledger of its coin (and, in multi-depot mode,
\* of its platform), every lot of its queue comes from one of them, and a
\* Sell consumes lots of its own coin and, in multi-depot mode, of its own
\* platform only.
C13_Step ==
    /\ pc = "groups" => /\ balance'.queue = <<>>
                        /\ balance'.not_sold = 0
                        /\ \A j \in 1 .. Len(book) :
                              InGroup(book[j], coin', operations')
                              <=> \E k \in 1 .. Len(operations') :
                                     operations'[k] = book[j]
    /\ pc' = "eval" => \A j \in 1 .. Len(balance'.queue) :
                          /\ InGroup(balance'.queue[j].op, coin', operations')
                          /\ \E k \in 1 .. Len(operations') :
                                operations'[k] = balance'.queue[j].op
    /\ (IsSellStep /\ pc' # "error") =>
          \A j \in 1 .. Len(sold_coins') :
              /\ sold_coins'[j].op.coin = operations[i].coin
              /\ MULTI_DEPOT =>
                    sold_coins'[j].op.platform = operations[i].platform

C13_GroupIsolation == [][C13_Step]_vars

\* In a single depot a Sell on one platform has consumed a lot of the other.
C13_Witness ==
    /\ ~MULTI_DEPOT
    /\ pc = "eval"
    /\ i > 1
    /\ operations[i - 1].kind = "Sell"
    /\ \E j \in 1 .. Len(sold_coins) :
          sold_coins[j].op.platform # operations[i - 1].platform

-----------------------------------------------------------------------------
(* Properties of the replay of single operations *)

\* The step appends one realized Tax Event, for the operation replayed.
OneEventAppended ==
    /\ Len(tax_events') = Len(tax_events) + 1
    /\ SubSeq(tax_events', 1, Len(tax_events)) = tax_events
    /\ tax_events'[Len(tax_events')].op = operations[i]

\* The step takes the amount of the operation replayed out of the queue.
AmountRemoved ==
    /\ balance'.not_sold = balance.not_sold - operations[i].change
    /\ SumRemaining(balance'.queue)
          = SumRemaining(balance.queue) - operations[i].change
    /\ Len(balance'.queue) = Len(balance.queue)

\* The step adds a lot of the amount of the operation replayed to the queue.
LotAdded ==
    /\ balance'.not_sold = balance.not_sold + operations[i].change
    /\ balance'.queue = Append(balance.queue, Lot(operations[i]))

\* C14 as claimed, of a Sell in the tax year: a Sell the queue can serve
\* removes its amount; no Tax Event for the home fiat; otherwise one Tax Event
\* if a consumed lot is taxable or tracking is on, and none if no consumed lot
\* is taxable and tracking is off.
C14_Step ==
    (IsSellStep /\ pc' # "error" /\ in_tax_year(operations[i])) =>
        /\ AmountRemoved
        /\ IF coin = FIAT
           THEN tax_events' = tax_events
           ELSE IF \/ CALCULATE_UNREALIZED_GAINS
                   \/ \E j \in 1 .. Len(sold_coins') :
                         is_taxable(sold_coins'[j], operations[i])
           THEN OneEventAppended
           ELSE tax_events' = tax_events

C14_SellEmission == [][C14_Step]_vars

\* C14 as amended: a Sell the queue can serve removes its amount; no Tax Event
\* for the home fiat; otherwise one Tax Event if and only if the Sell lies in
\* the tax year, whatever the taxability of the lots and the tracking flag,
\* with taxed_gain 0 when no consumed lot is taxable.
C14_AmendedStep ==
    (IsSellStep /\ pc' # "error") =>
        /\ AmountRemoved
        /\ IF coin # FIAT /\ in_tax_year(operations[i])
           THEN /\ OneEventAppended
                /\ (\A j \in 1 .. Len(sold_coins') :
                        ~is_taxable(sold_coins'[j], operations[i]))
                      => tax_events'[Len(tax_events')].taxed_gain = 0
           ELSE tax_events' = tax_events

C14_SellEmissionInYear == [][C14_AmendedStep]_vars

\* Without tracking, a Sell of long-term lots only has left its Tax Event.
C14_Witness ==
    /\ ~CALCULATE_UNREALIZED_GAINS
    /\ \E j \in 1 .. Len(tax_events) :
          /\ tax_events[j].op.kind = "Sell"
          /\ tax_events[j].taxed_gain = 0
          /\ tax_events[j].remark # <<>>
          /\ \A n \in 1 .. Len(tax_events[j].remark) :
                IS_LONG_TERM(tax_events[j].remark[n].utc_time,
                             tax_events[j].op.utc_time)

\* The time of the operation lies in the tax year.
InYear(op) == TAX_YEAR * TicksPerYear <= op.utc_time
              /\ op.utc_time < (TAX_YEAR + 1) * TicksPerYear

\* Every realized Tax Event is of an operation in the tax year.
AllInTaxYear == \A j \in 1 .. Len(tax_events) : InYear(tax_events[j].op)

\* C15: tax-year filtering.  Every realized Tax Event is of an operation in
\* the tax year; the replay of an operation outside the tax year appends no
\* realized Tax Event; and the virtual Sell at the end of a group appends its
\* event whatever its year.
C15_Step ==
    /\ (IsLedgerStep /\ ~InYear(operations[i]))
          => tax_events' = tax_events
    /\ (IsFinishStep /\ CALCULATE_UNREALIZED_GAINS /\ balance.not_sold > 0
           /\ coin # FIAT)
          => /\ Len(virtual_tax_events') = Len(virtual_tax_events) + 1
             /\ virtual_tax_events'[Len(virtual_tax_events')].op.utc_time
                   = TAX_DEADLINE

C15_TaxYearFiltering == [](AllInTaxYear) /\ [][C15_Step]_vars

\* A Sell before the tax year has left no event, an operation in the tax year
\* has, and the virtual Sell, dated before the tax year, has left its own.
C15_Witness ==
    /\ pc = "done"
    /\ \E j \in 1 .. Len(book) :
          book[j].kind = "Sell" /\ ~InYear(book[j])
    /\ tax_events # <<>>
    /\ virtual_tax_events # <<>>
    /\ ~InYear(virtual_tax_events[1].op)


\* The Sell replayed, were it dated at the first tick of the tax year.
SameSellInYear == [operations[i] EXCEPT !.utc_time = TAX_YEAR * TicksPerYear]

\* C16: disposals outside the tax year still consume lots.  A Sell before the
\* tax year, or of the home fiat, that the queue can serve leaves the queue
\* as a Sell of the same amount in the tax year would, with the same records
\* of consumption, and leaves both event lists as they are.
C16_Step ==
    (IsSellStep /\ pc' # "error" /\ (~InYear(operations[i]) \/ coin = FIAT)) =>
        /\ AmountRemoved
        /\ balance' = remove(balance, SameSellInYear).balance
        /\ \A j \in 1 .. Len(sold_coins') :
              sold_coins'[j] = remove(balance, SameSellInYear).sold_coins[j]
        /\ Len(sold_coins') = Len(remove(balance, SameSellInYear).sold_coins)
        /\ tax_events' = tax_events
        /\ virtual_tax_events' = virtual_tax_events

C16_UntaxedSellConsumes == [][C16_Step]_vars

\* A Sell before the tax year took half of the lot, a Sell in the tax year the
\* other half: the queue is empty and one Tax Event is left.
C16_Witness ==
    /\ pc = "done"
    /\ Len(book) = 3
    /\ book[1].kind = "Buy" /\ book[1].coin # FIAT /\ book[1].change = 2
    /\ book[2].kind = "Sell" /\ ~InYear(book[2])
    /\ book[3].kind = "Sell" /\ InYear(book[3])
    /\ Len(tax_events) = 1
    /\ tax_events[1].op = book[3]
    /\ balance.not_sold = 0


\* The operation replayed is of the kind k.
Replaying(k) == IsLedgerStep /\ operations[i].kind = k

\* The fiat value of the operation replayed: its amount at the price of its time.
FullFiatValue ==
    Dec(Price(operations[i].coin, operations[i].utc_time) * operations[i].change)

\* The step adds the lot and taxes the income if it is of the tax year.
IncomeTaxedInYear ==
    /\ LotAdded
    /\ pc' = "eval"
    /\ IF InYear(operations[i])
       THEN /\ OneEventAppended
            /\ tax_events'[Len(tax_events')].taxed_gain = FullFiatValue
       ELSE tax_events' = tax_events

\* The step adds the lot and nothing else.
OnlyLotAdded ==
    /\ LotAdded
    /\ pc' = "eval"
    /\ tax_events' = tax_events

\* C17 as claimed: interest and commissions add their lot and append one Tax
\* Event of their full fiat value if and only if in the tax year; a Buy or an
\* Airdrop adds its lot and appends nothing.
C17_Step ==
    /\ (Replaying("CoinLendInterest") \/ Replaying("StakingInterest")
           \/ Replaying("Commission")) => IncomeTaxedInYear
    /\ (Replaying("Buy") \/ Replaying("Airdrop")) => OnlyLotAdded

C17_IncomeOperations == [][C17_Step]_vars

\* C17 as amended: as claimed, but a StakingInterest of the home fiat in the
\* tax year adds its lot and then fails the assertion that fiat is not
\* staked, appending nothing.
C17_AmendedStep ==
    /\ (Replaying("CoinLendInterest") \/ Replaying("Commission"))
          => IncomeTaxedInYear
    /\ Replaying("StakingInterest") =>
          IF coin = FIAT /\ InYear(operations[i])
          THEN /\ LotAdded
               /\ pc' = "error"
               /\ error' = "AssertionError"
               /\ tax_events' = tax_events
          ELSE IncomeTaxedInYear
    /\ (Replaying("Buy") \/ Replaying("Airdrop")) => OnlyLotAdded

C17_IncomeOperationsButFiatStaking == [][C17_AmendedStep]_vars

\* An Airdrop, a StakingInterest and a Commission of the tax year: two events.
C17_Witness ==
    /\ pc = "done"
    /\ Len(book) = 3
    /\ book[1].kind = "Airdrop" /\ InYear(book[1])
    /\ Len(tax_events) = 2
    /\ tax_events[1].op.kind = "StakingInterest"
    /\ tax_events[2].op.kind = "Commission"
    /\ tax_events[2].taxed_gain > tax_events[1].taxed_gain


\* The step leaves both lists of Tax Events as they are.
NoEventAppended ==
    /\ tax_events' = tax_events
    /\ virtual_tax_events' = virtual_tax_events

\* The replay goes on with the next operation of the group.
NextOperation ==
    /\ pc' = "eval"
    /\ i' = i + 1
    /\ operations' = operations

\* C18: a Deposit or a Withdrawal of a coin other than the home fiat leaves
\* the queue and both lists of Tax Events unchanged and the replay continues
\* with the next operation; a Deposit of the home fiat adds a lot, and a
\* Withdrawal of the home fiat that the queue can serve removes its amount.
C18_Step ==
    /\ ((Replaying("Deposit") \/ Replaying("Withdrawal")) /\ coin # FIAT) =>
          /\ balance' = balance
          /\ NoEventAppended
          /\ NextOperation
    /\ (Replaying("Deposit") /\ coin = FIAT) =>
          /\ LotAdded
          /\ NoEventAppended
          /\ NextOperation
    /\ (Replaying("Withdrawal") /\ coin = FIAT /\ pc' # "error") =>
          /\ AmountRemoved
          /\ NoEventAppended
          /\ NextOperation

C18_TransfersSkipped == [][C18_Step]_vars

\* The run ends without an error on a ledger with a Withdrawal of BTC that
\* nothing precedes, and a Deposit of EUR that a Withdrawal takes out in part.
C18_Witness ==
    /\ pc = "done"
    /\ Len(book) = 3
    /\ \E j \in 1 .. 3 : book[j].kind = "Withdrawal" /\ book[j].coin = "BTC"
    /\ \E j, k \in 1 .. 3 :
          /\ j < k
          /\ book[j].kind = "Deposit" /\ book[j].coin = FIAT
          /\ book[k].kind = "Withdrawal" /\ book[k].coin = FIAT
          /\ book[k].change < book[j].change
    /\ tax_events = <<>>


\* The step raises e and changes nothing else.
RaisedOnly(e) ==
    /\ pc' = "error"
    /\ error' = e
    /\ balance' = balance
    /\ sold_coins' = sold_coins
    /\ NoEventAppended
    /\ <<i, operations, todo, runs>>' = <<i, operations, todo, runs>>

\* C19: a Fee raises RuntimeError and an operation of an unknown kind
\* NotImplementedError, before any change of the balance and any Tax Event;
\* after an error no step follows, so neither the rest of the group nor a
\* later group is processed.
C19_Step ==
    /\ Replaying("Fee") => RaisedOnly("RuntimeError")
    /\ Replaying("Unknown") => RaisedOnly("NotImplementedError")
    /\ pc # "error"

C19_FatalAborts == [][C19_Step]_vars

\* A Fee after a Buy has stopped the run; an operation of the group and a
\* whole group are left.
C19_Witness ==
    /\ pc = "error"
    /\ error = "RuntimeError"
    /\ operations[i].kind = "Fee"
    /\ i < Len(operations)
    /\ balance.queue # <<>>
    /\ todo # <<>>
    /\ runs = <<>>


\* The ledger holds an operation of a year after the tax year.
LateLedger == \E j \in 1 .. Len(book) : book[j].utc_time >= AfterTaxYear

\* This step is the call of evaluate_taxation.
IsEvaluateStep == pc = "read" /\ book' = book

\* C20: on a ledger with an operation of a year after the tax year,
\* evaluate_taxation fails with AssertionError, no group having been formed
\* or replayed and both lists of Tax Events being as before; so no group is
\* ever replayed on such a ledger.
C20_Step ==
    (IsEvaluateStep /\ LateLedger) =>
        /\ pc' = "error"
        /\ error' = "AssertionError"
        /\ NoEventAppended
        /\ <<todo, operations, i, balance, sold_coins, runs>>'
              = <<todo, operations, i, balance, sold_coins, runs>>

C20_TaxYearPrecondition ==
    /\ [](LateLedger => (pc = "read" \/ pc = "error") /\ operations = <<>>)
    /\ [][C20_Step]_vars

\* The assertion has failed on a ledger whose last operation only is late.
C20_Witness ==
    /\ pc = "error"
    /\ error = "AssertionError"
    /\ Len(book) = 3
    /\ InYear(book[1])
    /\ book[2].kind = "Sell"
    /\ Year(book[3].utc_time) > TAX_YEAR
    /\ operations = <<>>
    /\ tax_events = <<>>
    /\ virtual_tax_events = <<>>

====
